---- MODULE Spec2Model ----
(***************************************************************************)
(* Model of numrs' Vector<T> (src/src/vector.rs): construction, clone,     *)
(* and the SIMD-chunked operators ==, +, -, *, / and unary - for           *)
(* Vector<f32> (f32x4 registers) and Vector<f64> (f64x2 registers).        *)
(*                                                                         *)
(* Every operator call is a small sequential process: the entry (the      *)
(* length check), one step per iteration of the `step_by` chunk loop, and *)
(* the return.  Vector indices are 0-based as in the source; TLA+         *)
(* sequences are 1-based, so data[k] of the source is data[k + 1] here.   *)
(***************************************************************************)
EXTENDS Integers, Sequences, FiniteSets

\* ------------------------------------------------------------------ bounds
\* Longest input slice handed to Vector::new.
MaxLen == 8
\* Largest finite magnitude of the reduced float format (the role of
\* f32::MAX / f64::MAX): a finite result above it overflows to infinity.
MaxMag == 8

\* ------------------------------------------------------- IEEE-754 values
\* A float is a record: class c ("fin", "inf", "nan"), sign bit s, and the
\* magnitude m of a finite value (precision: one unit).
FNum(s, m) == [c |-> "fin", s |-> s, m |-> m]
FInf(s) == [c |-> "inf", s |-> s, m |-> 0]
FNaN(s) == [c |-> "nan", s |-> s, m |-> 0]
\* The literal 0.0_f32 / 0.0_f64 used to pad a tail register.
Zero == FNum(0, 0)
\* The quiet NaN an invalid SSE operation produces (sign bit set).
DefaultNaN == FNaN(1)

IsNaN(a) == a.c = "nan"
IsZero(a) == a.c = "fin" /\ a.m = 0
IsFinite(a) == a.c = "fin"
Xor(s, t) == IF s = t THEN 0 ELSE 1
Signed(a) == IF a.s = 1 THEN 0 - a.m ELSE a.m
Abs(n) == IF n < 0 THEN 0 - n ELSE n
\* A finite result of sign s and magnitude m, overflowing to infinity.
Rounded(s, m) == IF m > MaxMag THEN FInf(s) ELSE FNum(s, m)
\* Quotient of magnitudes rounded to nearest, ties to even.
DivRound(x, y) ==
  LET q == x \div y
      r == x % y
  IN  IF 2 * r > y THEN q + 1
      ELSE IF 2 * r = y THEN q + (q % 2)
      ELSE q

\* Faulty variant of FNeg: negation computed as 0.0 - a, which loses the
\* sign of a zero.
FNegBySub(a) ==
  IF IsNaN(a) THEN a
  ELSE IF a.c = "inf" THEN FInf(1 - a.s)
  ELSE IF a.m = 0 THEN FNum(0, 0)
  ELSE FNum(1 - a.s, a.m)

\* Lane negation: the sign bit is flipped, whatever the class.
FNeg(a) == [a EXCEPT !.s = 1 - a.s]

\* Lane addition.
FAdd(a, b) ==
  IF IsNaN(a) THEN a
  ELSE IF IsNaN(b) THEN b
  ELSE IF a.c = "inf" THEN (IF b.c = "inf" /\ b.s # a.s THEN DefaultNaN ELSE a)
  ELSE IF b.c = "inf" THEN b
  ELSE LET sum == Signed(a) + Signed(b)
       IN  IF sum = 0
           THEN FNum(IF a.s = 1 /\ b.s = 1 THEN 1 ELSE 0, 0)
           ELSE Rounded(IF sum < 0 THEN 1 ELSE 0, Abs(sum))

\* Lane subtraction.
FSub(a, b) ==
  IF IsNaN(a) THEN a
  ELSE IF IsNaN(b) THEN b
  ELSE FAdd(a, FNeg(b))

\* Lane multiplication.
FMul(a, b) ==
  IF IsNaN(a) THEN a
  ELSE IF IsNaN(b) THEN b
  ELSE IF (a.c = "inf" /\ IsZero(b)) \/ (IsZero(a) /\ b.c = "inf") THEN DefaultNaN
  ELSE IF a.c = "inf" \/ b.c = "inf" THEN FInf(Xor(a.s, b.s))
  ELSE Rounded(Xor(a.s, b.s), a.m * b.m)

\* Lane division: x/0 is an infinity, 0/0 and inf/inf are NaN; no fault.
FDiv(a, b) ==
  IF IsNaN(a) THEN a
  ELSE IF IsNaN(b) THEN b
  ELSE IF (a.c = "inf" /\ b.c = "inf") \/ (IsZero(a) /\ IsZero(b)) THEN DefaultNaN
  ELSE IF a.c = "inf" \/ IsZero(b) THEN FInf(Xor(a.s, b.s))
  ELSE IF b.c = "inf" THEN FNum(Xor(a.s, b.s), 0)
  ELSE Rounded(Xor(a.s, b.s), DivRound(a.m, b.m))

\* Lane comparison (cmpeq): NaN equals nothing, -0.0 equals 0.0.
FEq(a, b) ==
  /\ ~IsNaN(a)
  /\ ~IsNaN(b)
  /\ (a = b \/ (IsZero(a) /\ IsZero(b)))

\* The register instruction an operator's loop body applies to its lanes.
LaneOp(o, a, b) ==
  CASE o = "add" -> FAdd(a, b)
    [] o = "sub" -> FSub(a, b)
    [] o = "mul" -> FMul(a, b)
    [] o = "div" -> FDiv(a, b)

\* The Err message of each operator.
ErrMsg(o) ==
  CASE o = "add" -> "Vectors are not conformable for addition."
    [] o = "sub" -> "Vectors are not conformable for subtraction."
    [] o = "mul" -> "Vectors are not conformable for multiplication."
    [] o = "div" -> "Vectors are not conformable for division."

\* ------------------------------------------------------------ inputs
\* The element values the input slices are built from:
\* 1.0, -2.0, 0.0, NaN, -0.0, +inf, 3.0.
Vals == << FNum(0, 1), FNum(1, 2), FNum(0, 0), FNaN(0), FNum(1, 0), FInf(0), FNum(0, 3) >>
\* The slice of n values starting at Vals[a] and advancing by stride s.
Slice(n, a, s) == [k \in 1..n |-> Vals[((a + (k - 1) * s) % Len(Vals)) + 1]]
\* Slice e with its k-th value replaced by v.
Poke(e, k, v) == [e EXCEPT ![k] = v]
\* The slices a left operand is constructed from.
Elems == { Slice(n, a, s) : n \in 0..MaxLen, a \in 0..(Len(Vals) - 1), s \in 0..2 }
\* The slices a right operand is constructed from, next to left operand e:
\* two unrelated slices of every length, e itself, and e with one value changed.
RhsElems(e) ==
  { Slice(n, a, 1) : n \in 0..MaxLen, a \in {0, 2} }
    \cup {e}
    \cup { Poke(e, k, v) : k \in 1..Len(e), v \in {Zero, FNum(0, 1)} }

\* ------------------------------------------------------- the container
\* Vector::new: the slice is copied into a fresh Vec.
new(elems) == [k \in 1..Len(elems) |-> elems[k]]
\* Vector::len.
len(data) == Len(data)
\* Clone::clone: a copy of the data.
clone(data) == [k \in 1..Len(data) |-> data[k]]

\* ------------------------------------------------- registers and chunks
\* Where a register lane was filled from: element k of the operand, or the
\* 0.0 literal.
Real(k) == << k >>
Pad == << >>

\* Lanes per register: f32x4 and f64x2, the step of each chunk loop.
StepF32 == 4
StepF64 == 2

\* Faulty variant of TailCondF32: `<=` for `<`.
TailCondF32Le(n, i) == n - i <= 4

\* `if self.data.len() - i < 4` of the f32 loops.
TailCondF32(n, i) == n - i < 4
\* `if self.data.len() - i < 2` of the f64 loops.
TailCondF64(n, i) == n - i < 2

\* The f32 tail loop `for j in i..len { match len - j { 1 => x1, 2 => x2,
\* 3 => x3 } }`: x is <<x1, x2, x3>>, each holding the place it was read from.
RECURSIVE TailAssign(_, _, _)
TailAssign(x, n, j) ==
  IF j >= n THEN x
  ELSE LET diff == n - j
       IN  TailAssign(IF diff \in 1..3 THEN [x EXCEPT ![diff] = Real(j)] ELSE x, n, j + 1)

\* The lanes of an f32x4 register of the chunk at offset i:
\* f32x4::new(x1, x2, x3, 0.0) in the tail, f32x4::load(data, i) otherwise.
RegSrcF32(n, i) ==
  IF TailCondF32(n, i)
  THEN TailAssign(<< Pad, Pad, Pad >>, n, i) \o << Pad >>
  ELSE << Real(i), Real(i + 1), Real(i + 2), Real(i + 3) >>

\* Faulty variant of RegLenF32: `reg_len = self.data.len() - i` is missing.
RegLenF32Full(n, i) == 4

\* reg_len of the f32 loops.
RegLenF32(n, i) == IF TailCondF32(n, i) THEN n - i ELSE 4

\* Faulty variant of RegSrcF64: the tail is built as f64x2::new(0.0, data[i]).
RegSrcF64Swapped(n, i) ==
  IF n - i < 2
  THEN << Pad, Real(i) >>
  ELSE << Real(i), Real(i + 1) >>

\* The lanes of an f64x2 register: f64x2::new(data[i], 0.0) in the tail,
\* f64x2::load(data, i) otherwise.
RegSrcF64(n, i) ==
  IF TailCondF64(n, i)
  THEN << Real(i), Pad >>
  ELSE << Real(i), Real(i + 1) >>

\* Faulty variant of RegLenF64: `reg_len = 1` is missing.
RegLenF64Full(n, i) == 2

\* reg_len of the f64 loops.
RegLenF64(n, i) == IF TailCondF64(n, i) THEN 1 ELSE 2

\* The panic, if any, of building the registers of the f32 chunk at offset
\* i over operands of n1 and n2 elements and extracting reg_len lanes.
FaultF32(n1, n2, i, rlen) ==
  IF TailCondF32(n1, i)
  THEN IF \E j \in i..(n1 - 1) : (n1 - j) \notin 1..3 THEN "unreachable"
       ELSE IF n1 > n2 THEN "index"
       ELSE IF rlen > 4 THEN "extract"
       ELSE "none"
  ELSE IF i + 4 > n1 \/ i + 4 > n2 THEN "load"
       ELSE IF rlen > 4 THEN "extract"
       ELSE "none"

\* The same for the f64 chunk.
FaultF64(n1, n2, i, rlen) ==
  IF TailCondF64(n1, i)
  THEN IF i >= n1 \/ i >= n2 THEN "index"
       ELSE IF rlen > 2 THEN "extract"
       ELSE "none"
  ELSE IF i + 2 > n1 \/ i + 2 > n2 THEN "load"
       ELSE IF rlen > 2 THEN "extract"
       ELSE "none"

\* The register filled from `data` as `src` says.
Gather(data, src) ==
  [l \in 1..Len(src) |-> IF src[l] = Pad THEN Zero ELSE data[src[l][1] + 1]]

\* Per precision.
Step(p) == IF p = "f32" THEN StepF32 ELSE StepF64
RegSrc(p, n, i) == IF p = "f32" THEN RegSrcF32(n, i) ELSE RegSrcF64(n, i)
RegLen(p, n, i) == IF p = "f32" THEN RegLenF32(n, i) ELSE RegLenF64(n, i)
Fault(p, n1, n2, i, rlen) ==
  IF p = "f32" THEN FaultF32(n1, n2, i, rlen) ELSE FaultF64(n1, n2, i, rlen)

\* --------------------------------------------------------------- state
VARIABLES
  prec,     \* the element type of the two vectors: "f32" or "f64"
  lhs,      \* self.data of the running (or next) operator call
  rhs,      \* rhs.data / other.data
  orig,     \* the data of the vector first constructed (v of -(-v))
  cloned,   \* rhs was made by lhs.clone()
  op,       \* the operator being called: "add" "sub" "mul" "div" "neg" "eq"
  pc,       \* "idle", "loop" (in the chunk loop), "done", "panic"
  i,        \* the chunk loop's offset
  new_vec,  \* the output built so far
  new_src,  \* for each pushed value, the lane source it was computed from
  offsets,  \* the offsets the chunk loop has visited
  pushed,   \* the number of values each visited chunk pushed
  negs,     \* how many negations produced lhs / are under way
  fault,    \* the panic raised, "none" if none
  ret       \* the value returned

vars == << prec, lhs, rhs, orig, cloned, op, pc, i, new_vec, new_src, offsets,
           pushed, negs, fault, ret >>

BinOps == { "add", "sub", "mul", "div" }

\* Return values: Ok(Vector), Err(String), Vector, bool.
NoRet == [tag |-> "None", data |-> << >>, msg |-> "", val |-> FALSE]
Ok(data) == [tag |-> "Ok", data |-> data, msg |-> "", val |-> FALSE]
Err(msg) == [tag |-> "Err", data |-> << >>, msg |-> msg, val |-> FALSE]
Vec(data) == [tag |-> "Vec", data |-> data, msg |-> "", val |-> FALSE]
Bool(b) == [tag |-> "Bool", data |-> << >>, msg |-> "", val |-> b]

\* Two vectors of one element type have been constructed.
Init ==
  /\ prec \in { "f32", "f64" }
  /\ \E e \in Elems :
       /\ lhs = new(e)
       /\ orig = new(e)
       /\ \E f \in RhsElems(e) : rhs = new(f)
  /\ cloned = FALSE
  /\ op = "none"
  /\ pc = "idle"
  /\ i = 0
  /\ new_vec = << >>
  /\ new_src = << >>
  /\ offsets = << >>
  /\ pushed = << >>
  /\ negs = 0
  /\ fault = "none"
  /\ ret = NoRet

\* let w = v.clone().
Clone ==
  /\ pc = "idle"
  /\ ~cloned
  /\ rhs' = clone(lhs)
  /\ cloned' = TRUE
  /\ UNCHANGED << prec, lhs, orig, op, pc, i, new_vec, new_src, offsets, pushed,
                  negs, fault, ret >>

\* A chunk iteration panics.
Panic(f) ==
  /\ pc' = "panic"
  /\ fault' = f
  /\ UNCHANGED << i, new_vec, new_src, offsets, pushed, ret >>

\* ---- binary operators: add, sub, mul, div
\* Faulty variant of Conformable: `<=` for `==`.
ConformableLe(n1, n2) == n1 <= n2

\* `if self.data.len() == rhs.data.len()`.
Conformable(n1, n2) == n1 = n2

\* The call and its length check.
BinaryEnter(o) ==
  /\ pc = "idle"
  /\ op' = o
  /\ IF Conformable(len(lhs), len(rhs))
     THEN /\ pc' = "loop"
          /\ ret' = NoRet
     ELSE /\ pc' = "done"
          /\ ret' = Err(ErrMsg(o))
  /\ i' = 0
  /\ new_vec' = << >>
  /\ new_src' = << >>
  /\ offsets' = << >>
  /\ pushed' = << >>
  /\ UNCHANGED << prec, lhs, rhs, orig, cloned, negs, fault >>

\* One iteration of `for i in (0..self.data.len()).step_by(W)`.
BinaryChunk(o) ==
  /\ pc = "loop"
  /\ op = o
  /\ i < len(lhs)
  /\ LET src == RegSrc(prec, len(lhs), i)
         reg_len == RegLen(prec, len(lhs), i)
         f == Fault(prec, len(lhs), len(rhs), i, reg_len)
     IN  IF f # "none"
         THEN Panic(f)
         ELSE LET reg1 == Gather(lhs, src)
                  reg2 == Gather(rhs, src)
                  res == [l \in 1..Len(src) |-> LaneOp(o, reg1[l], reg2[l])]
              IN  /\ new_vec' = new_vec \o SubSeq(res, 1, reg_len)
                  /\ new_src' = new_src \o SubSeq(src, 1, reg_len)
                  /\ offsets' = Append(offsets, i)
                  /\ pushed' = Append(pushed, reg_len)
                  /\ i' = i + Step(prec)
                  /\ UNCHANGED << pc, fault, ret >>
  /\ UNCHANGED << prec, lhs, rhs, orig, cloned, op, negs >>

\* The loop is over: Ok(Vector { data: new_vec }).
BinaryReturn(o) ==
  /\ pc = "loop"
  /\ op = o
  /\ i >= len(lhs)
  /\ pc' = "done"
  /\ ret' = Ok(new_vec)
  /\ UNCHANGED << prec, lhs, rhs, orig, cloned, op, i, new_vec, new_src, offsets,
                  pushed, negs, fault >>

Binary(o) ==
  \/ BinaryEnter(o)
  \/ BinaryChunk(o)
  \/ BinaryReturn(o)

\* ---- unary negation
\* The call, on the constructed vector or, for -(-v), on the vector the
\* first negation returned.
NegEnter ==
  /\ \/ /\ pc = "idle"
        /\ lhs' = lhs
        /\ negs' = 1
     \/ /\ pc = "done"
        /\ op = "neg"
        /\ negs = 1
        /\ lhs' = ret.data
        /\ negs' = 2
  /\ op' = "neg"
  /\ pc' = "loop"
  /\ ret' = NoRet
  /\ i' = 0
  /\ new_vec' = << >>
  /\ new_src' = << >>
  /\ offsets' = << >>
  /\ pushed' = << >>
  /\ UNCHANGED << prec, rhs, orig, cloned, fault >>

NegChunk ==
  /\ pc = "loop"
  /\ op = "neg"
  /\ i < len(lhs)
  /\ LET src == RegSrc(prec, len(lhs), i)
         reg_len == RegLen(prec, len(lhs), i)
         f == Fault(prec, len(lhs), len(lhs), i, reg_len)
     IN  IF f # "none"
         THEN Panic(f)
         ELSE LET reg == Gather(lhs, src)
                  res == [l \in 1..Len(src) |-> FNeg(reg[l])]
              IN  /\ new_vec' = new_vec \o SubSeq(res, 1, reg_len)
                  /\ new_src' = new_src \o SubSeq(src, 1, reg_len)
                  /\ offsets' = Append(offsets, i)
                  /\ pushed' = Append(pushed, reg_len)
                  /\ i' = i + Step(prec)
                  /\ UNCHANGED << pc, fault, ret >>
  /\ UNCHANGED << prec, lhs, rhs, orig, cloned, op, negs >>

NegReturn ==
  /\ pc = "loop"
  /\ op = "neg"
  /\ i >= len(lhs)
  /\ pc' = "done"
  /\ ret' = Vec(new_vec)
  /\ UNCHANGED << prec, lhs, rhs, orig, cloned, op, i, new_vec, new_src, offsets,
                  pushed, negs, fault >>

Neg ==
  \/ NegEnter
  \/ NegChunk
  \/ NegReturn

\* ---- equality
EqEnter ==
  /\ pc = "idle"
  /\ op' = "eq"
  /\ IF len(lhs) = len(rhs)
     THEN /\ pc' = "loop"
          /\ ret' = NoRet
     ELSE /\ pc' = "done"
          /\ ret' = Bool(FALSE)
  /\ i' = 0
  /\ new_vec' = << >>
  /\ new_src' = << >>
  /\ offsets' = << >>
  /\ pushed' = << >>
  /\ UNCHANGED << prec, lhs, rhs, orig, cloned, negs, fault >>

\* Faulty variant of AllLanesEq: `.any()` for `.all()`.
AllLanesEqAny(reg1, reg2) == \E l \in 1..Len(reg1) : FEq(reg1[l], reg2[l])

\* reg1.eq(reg2).all(): every lane of the two registers compares equal.
AllLanesEq(reg1, reg2) == \A l \in 1..Len(reg1) : FEq(reg1[l], reg2[l])

EqChunk ==
  /\ pc = "loop"
  /\ op = "eq"
  /\ i < len(lhs)
  /\ LET src == RegSrc(prec, len(lhs), i)
         f == Fault(prec, len(lhs), len(rhs), i, 0)
     IN  IF f # "none"
         THEN Panic(f)
         ELSE LET reg1 == Gather(lhs, src)
                  reg2 == Gather(rhs, src)
              IN  /\ IF ~AllLanesEq(reg1, reg2)
                     THEN /\ pc' = "done"
                          /\ ret' = Bool(FALSE)
                          /\ i' = i
                     ELSE /\ i' = i + Step(prec)
                          /\ UNCHANGED << pc, ret >>
                  /\ offsets' = Append(offsets, i)
                  /\ UNCHANGED << new_vec, new_src, pushed, fault >>
  /\ UNCHANGED << prec, lhs, rhs, orig, cloned, op, negs >>

EqReturn ==
  /\ pc = "loop"
  /\ op = "eq"
  /\ i >= len(lhs)
  /\ pc' = "done"
  /\ ret' = Bool(TRUE)
  /\ UNCHANGED << prec, lhs, rhs, orig, cloned, op, i, new_vec, new_src, offsets,
                  pushed, negs, fault >>

Eq ==
  \/ EqEnter
  \/ EqChunk
  \/ EqReturn

\* ---- the twelve operator implementations
eq_f32 == prec = "f32" /\ Eq
add_f32 == prec = "f32" /\ Binary("add")
neg_f32 == prec = "f32" /\ Neg
sub_f32 == prec = "f32" /\ Binary("sub")
mul_f32 == prec = "f32" /\ Binary("mul")
div_f32 == prec = "f32" /\ Binary("div")
eq_f64 == prec = "f64" /\ Eq
add_f64 == prec = "f64" /\ Binary("add")
neg_f64 == prec = "f64" /\ Neg
sub_f64 == prec = "f64" /\ Binary("sub")
mul_f64 == prec = "f64" /\ Binary("mul")
div_f64 == prec = "f64" /\ Binary("div")

Next ==
  \/ Clone
  \/ eq_f32
  \/ add_f32
  \/ neg_f32
  \/ sub_f32
  \/ mul_f32
  \/ div_f32
  \/ eq_f64
  \/ add_f64
  \/ neg_f64
  \/ sub_f64
  \/ mul_f64
  \/ div_f64

Spec == Init /\ [][Next]_vars

\* ============================================================ properties
\* The scalar, element-by-element application of a binary operator.
ScalarBinary(o, a, b) == [k \in 1..Len(a) |-> LaneOp(o, a[k], b[k])]
\* The scalar, element-by-element negation.
ScalarNeg(a) == [k \in 1..Len(a) |-> FNeg(a[k])]
\* The operators that build an output vector.
Arith == BinOps \cup { "neg" }
\* The lane width of the element type.
LaneWidth == IF prec = "f32" THEN 4 ELSE 2
\* An arithmetic call is in its chunk loop or has returned a vector.
Computing == op \in Arith /\ pc \in { "loop", "done" } /\ ret.tag # "Err"
\* What output position p must hold when computed from element j (0-based).
ValueAt(j) ==
  IF op = "neg" THEN FNeg(lhs[j + 1]) ELSE LaneOp(op, lhs[j + 1], rhs[j + 1])

\* C1: for Vector<f32>, every binary operator on operands of equal length
\* returns Ok(result) with result[i] = lhs[i] op rhs[i] for every index i,
\* in the original order.
C1_F32Elementwise ==
  (prec = "f32" /\ pc = "done" /\ op \in BinOps /\ Len(lhs) = Len(rhs))
    => ret = Ok(ScalarBinary(op, lhs, rhs))

\* Sequence a with its final partial group of (Len(a) % 4) elements reversed.
TailReversed(a) ==
  LET n == Len(a)
      f == n - (n % 4)
  IN  [k \in 1..n |-> IF k <= f THEN a[k] ELSE a[f + (n - k) + 1]]

\* What the f32 binary operators return instead: the element-by-element
\* result with its tail chunk in reverse order.
F32ResultTailReversed ==
  (prec = "f32" /\ pc = "done" /\ op \in BinOps /\ Len(lhs) = Len(rhs))
    => ret = Ok(TailReversed(ScalarBinary(op, lhs, rhs)))

\* C2: for Vector<f64>, every binary operator on operands of equal length
\* returns Ok(result) with result[i] = lhs[i] op rhs[i] for every index i.
C2_F64Elementwise ==
  (prec = "f64" /\ pc = "done" /\ op \in BinOps /\ Len(lhs) = Len(rhs))
    => ret = Ok(ScalarBinary(op, lhs, rhs))

\* An f64 division of two 5-element vectors (two full chunks and a tail of
\* one) has returned, the last two dividends differing.
C2_Witness ==
  /\ prec = "f64"
  /\ pc = "done"
  /\ op = "div"
  /\ Len(lhs) = 5
  /\ Len(rhs) = 5
  /\ pushed = << 2, 2, 1 >>
  /\ ret.tag = "Ok"
  /\ lhs[4] # lhs[5]

\* C3: negation (f32 and f64) returns a vector of the operand's length with
\* result[i] = -v[i] for every index i, in the original order.
C3_NegElementwise ==
  (pc = "done" /\ op = "neg") => ret = Vec(ScalarNeg(lhs))

\* The message each binary operator's error carries.
C4_Message(o) ==
  CASE o = "add" -> "Vectors are not conformable for addition."
    [] o = "sub" -> "Vectors are not conformable for subtraction."
    [] o = "mul" -> "Vectors are not conformable for multiplication."
    [] o = "div" -> "Vectors are not conformable for division."

\* C4: a binary operator on operands of different lengths returns Err with
\* the operator's message, never enters the chunk loop and builds no output;
\* on operands of equal length it returns Ok, never the error.
C4_ShapeMismatch ==
  op \in BinOps =>
    /\ pc = "loop" => Len(lhs) = Len(rhs)
    /\ pc = "done" =>
         IF Len(lhs) # Len(rhs)
         THEN /\ ret = Err(C4_Message(op))
              /\ new_vec = << >>
              /\ offsets = << >>
         ELSE ret.tag = "Ok"

\* An f32 subtraction of a 4-element vector from a 3-element one has
\* returned the error.
C4_Witness ==
  /\ prec = "f32"
  /\ pc = "done"
  /\ op = "sub"
  /\ Len(lhs) = 3
  /\ Len(rhs) = 4
  /\ ret.tag = "Err"

\* C5: equality returns false when the lengths differ, and otherwise true
\* if and only if lhs[i] == rhs[i] (lane comparison) for every index i.
C5_EqualityIff ==
  (pc = "done" /\ op = "eq")
    => ret = Bool(/\ Len(lhs) = Len(rhs)
                  /\ \A k \in 1..Len(lhs) : FEq(lhs[k], rhs[k]))

\* Two 6-element f32 vectors that differ in their last element only, which
\* lies in the tail chunk, have compared unequal.
C5_Witness ==
  /\ prec = "f32"
  /\ pc = "done"
  /\ op = "eq"
  /\ Len(lhs) = 6
  /\ Len(rhs) = 6
  /\ \A k \in 1..5 : FEq(lhs[k], rhs[k])
  /\ ~FEq(lhs[6], rhs[6])
  /\ offsets = << 0, 4 >>
  /\ ret = Bool(FALSE)

\* C6: v == v.clone() returns true for every constructible vector v.
C6_CloneEqual ==
  (pc = "done" /\ op = "eq" /\ cloned) => ret = Bool(TRUE)

\* C7: for a vector v of finite values, -(-v) has the length of v and
\* equals v at every index.
C7_NegInvolution ==
  (pc = "done" /\ op = "neg" /\ negs = 2 /\ \A k \in 1..Len(orig) : IsFinite(orig[k]))
    => /\ ret.tag = "Vec"
       /\ Len(ret.data) = Len(orig)
       /\ \A k \in 1..Len(orig) : ret.data[k] = orig[k]

\* -(-v) has returned for a 3-element f32 vector of finite values (a tail
\* chunk of three) whose first and last elements differ.
C7_Witness ==
  /\ prec = "f32"
  /\ pc = "done"
  /\ op = "neg"
  /\ negs = 2
  /\ Len(orig) = 3
  /\ \A k \in 1..3 : IsFinite(orig[k])
  /\ orig[1] # orig[3]
  /\ ret.data = orig

\* C8: the chunk loop of every arithmetic operator visits the offsets
\* 0, W, 2W, ... below N, pushes W values per full chunk and N - offset
\* values for the tail chunk, and ends with an output of exactly N values,
\* N being the length of the operand(s).
C8_ChunkLoop ==
  Computing =>
    LET W == LaneWidth
        n == Len(lhs)
    IN  /\ \A k \in 1..Len(offsets) : offsets[k] = (k - 1) * W /\ offsets[k] < n
        /\ Len(pushed) = Len(offsets)
        /\ \A k \in 1..Len(pushed) :
             pushed[k] = IF n - offsets[k] >= W THEN W ELSE n - offsets[k]
        /\ i = Len(offsets) * W
        /\ Len(new_vec) = IF i < n THEN i ELSE n
        /\ pc = "done" =>
             /\ i >= n
             /\ Len(offsets) = (n + W - 1) \div W
             /\ Len(ret.data) = n
             /\ op \in BinOps => Len(rhs) = n

\* An f32 addition of 6-element vectors has returned after a full chunk and
\* a tail chunk of two.
C8_Witness ==
  /\ prec = "f32"
  /\ pc = "done"
  /\ op = "add"
  /\ Len(lhs) = 6
  /\ offsets = << 0, 4 >>
  /\ pushed = << 4, 2 >>
  /\ Len(ret.data) = 6

\* C9: in the tail chunk (r = N - offset real elements, 0 < r < W) of every
\* arithmetic operator exactly r lanes are pushed, each computed from the
\* operands' elements at one index k of the tail range, each k used once,
\* and none from a 0.0 padding lane.
C9_PaddingDiscarded ==
  Computing =>
    LET W == LaneWidth
        n == Len(lhs)
    IN  \A k \in 1..Len(offsets) :
          LET o == offsets[k]
              r == n - o
          IN  r < W =>
                /\ r > 0
                /\ pushed[k] = r
                /\ Len(new_vec) = n
                /\ Len(new_src) = n
                /\ \A p \in (o + 1)..n :
                     /\ new_src[p] # Pad
                     /\ new_src[p][1] \in o..(n - 1)
                     /\ new_vec[p] = ValueAt(new_src[p][1])
                /\ \A p, q \in (o + 1)..n : p # q => new_src[p] # new_src[q]

\* An f32 division of 3-element vectors (a single tail chunk, whose padding
\* lane divides 0.0 by 0.0) has returned.
C9_Witness ==
  /\ prec = "f32"
  /\ pc = "done"
  /\ op = "div"
  /\ Len(lhs) = 3
  /\ pushed = << 3 >>
  /\ ret.tag = "Ok"
  /\ Len(ret.data) = 3

\* C10: no operator panics: in the f32 tail loop len - j is 1, 2 or 3, a
\* register is loaded at offset i only when W elements remain in both
\* operands, the f64 tail reads index i only when i < len, and no more than
\* W lanes are extracted.
C10_NoFault ==
  /\ pc # "panic"
  /\ fault = "none"
  /\ (pc = "loop" /\ i < Len(lhs)) =>
       LET W == LaneWidth
           n == Len(lhs)
       IN  /\ op # "neg" => Len(rhs) = n
           /\ IF n - i < W
              THEN /\ prec = "f32" => \A j \in i..(n - 1) : (n - j) \in { 1, 2, 3 }
                   /\ prec = "f64" => i < n
                   /\ RegLen(prec, n, i) = n - i
              ELSE /\ i + W <= n
                   /\ RegLen(prec, n, i) = W

\* An f32 negation of a 7-element vector has loaded a full register, run
\* its tail chunk (len - j taking the values 3, 2, 1) and returned.
C10_Witness ==
  /\ prec = "f32"
  /\ pc = "done"
  /\ op = "neg"
  /\ negs = 1
  /\ Len(lhs) = 7
  /\ offsets = << 0, 4 >>
  /\ pushed = << 4, 3 >>
  /\ fault = "none"

====
